---- MODULE Spec2Model ----
(***************************************************************************)
(* A model of the Milvus collection handler (src/milvus_handler.py) and of *)
(* the entry sequence that drives it (src/__main__.py).                    *)
(*                                                                         *)
(* The handler's three fields, the connection registry and the one store   *)
(* side collection are the state.  Every handler method is one action.     *)
(* Texts and primary keys are sequences of one-character strings, so that  *)
(* str() and strip() are computed and not assumed.                         *)
(***************************************************************************)
EXTENDS Integers, Sequences, FiniteSets, TLC

VARIABLES
    config,             \* config["milvus"]["fields"]: the configured field entries
    collection_exists,  \* MilvusHandler.collection_exists
    schema,             \* MilvusHandler.schema: None or Some(CollectionSchema)
    milvus_collection,  \* MilvusHandler.milvus_collection: None or Some(name)
    reachable,          \* environment: the Milvus server answers
    connected,          \* the alias is registered in pymilvus' connections
    store,              \* the store-side collection of that name
    lastOp,             \* the handler method (or caller statement) that ran last
    args,               \* its arguments
    raised,             \* the exception it let through to its caller
    logged,             \* the level of the last record it logged
    encodeCalls,        \* how many times it called model.encode
    trace,              \* the store calls it issued, in order
    ret,                \* what it returned
    before,             \* what held when it was called
    pc,                 \* position of each caller
    cnt,                \* each caller's last reading of num_entities
    lines               \* the lines read from config["data"]

vars == <<config, collection_exists, schema, milvus_collection, reachable,
          connected, store, lastOp, args, raised, logged, encodeCalls, trace,
          ret, before, pc, cnt, lines>>

handlerVars == <<collection_exists, schema, milvus_collection>>

callerVars == <<pc, cnt, lines>>

(***************************************************************************)
(* Bounds of the model.                                                    *)
(***************************************************************************)
MaxFields == 3      \* longest configured field list
MaxRows == 2        \* longest raw_data list of one insert
MaxEntities == 2    \* most entities the collection holds
MaxLimit == 2       \* largest search limit
EmbDim == 2         \* the embedder's output dimension

(***************************************************************************)
(* Python's None and a present value.                                      *)
(***************************************************************************)
None == <<>>
Some(x) == <<x>>

CollectionName == "demo"
Description == "demo collection"

(***************************************************************************)
(* Text: str(int), str.strip() and the embedder.                           *)
(***************************************************************************)
DigitChars == <<"0", "1", "2", "3", "4", "5", "6", "7", "8", "9">>

RECURSIVE Digits(_)
Digits(n) == IF n < 10 THEN <<DigitChars[n + 1]>>
             ELSE Digits(n \div 10) \o <<DigitChars[(n % 10) + 1]>>

\* str(i) of a Python int
Str(i) == IF i < 0 THEN <<"-">> \o Digits(-i) ELSE Digits(i)

Whitespace == {" ", "\n"}

RECURSIVE LStrip(_)
LStrip(s) == IF s # <<>> /\ Head(s) \in Whitespace THEN LStrip(Tail(s)) ELSE s

RECURSIVE RStrip(_)
RStrip(s) == IF s # <<>> /\ s[Len(s)] \in Whitespace
             THEN RStrip(SubSeq(s, 1, Len(s) - 1)) ELSE s

\* sentence.strip()
Strip(s) == RStrip(LStrip(s))

CharCode(c) == CASE c = "a" -> 1 [] c = "b" -> 2 [] OTHER -> 0

RECURSIVE Weight(_)
Weight(s) == IF s = <<>> THEN 0 ELSE CharCode(Head(s)) + Weight(Tail(s))

\* model.get_sentence_embedding_dimension()
EmbeddingDimension == EmbDim

\* model.encode(text): a vector of the embedder's dimension, fixed by the text
Encode(text) == [i \in 1..EmbeddingDimension |-> Weight(text) + Len(text) * (i - 1)]

\* range(a, b) as a list
Range(a, b) == [i \in 1..(IF b > a THEN b - a ELSE 0) |-> a + i - 1]

(***************************************************************************)
(* define_schema                                                           *)
(***************************************************************************)
FieldNames == {"pk", "embeddings", "sentence"}
DTypes == {"VARCHAR", "FLOAT_VECTOR"}
MaxLengths == {36, 500}

FieldEntries == [name : FieldNames, dtype : DTypes, max_length : MaxLengths]

\* FieldSchema(name, dtype, max_length, is_primary=True, auto_id=False)
PkField(field) ==
    [name |-> field.name, dtype |-> field.dtype,
     max_length |-> Some(field.max_length), dim |-> None,
     is_primary |-> TRUE, auto_id |-> FALSE]

\* a variant of EmbeddingsField that takes the dimension from the
\* configuration entry
EmbeddingsFieldConfiguredDim(field) ==
    [name |-> field.name, dtype |-> field.dtype,
     max_length |-> None, dim |-> Some(field.max_length),
     is_primary |-> FALSE, auto_id |-> FALSE]

\* FieldSchema(name, dtype, dim=model.get_sentence_embedding_dimension())
EmbeddingsField(field) ==
    [name |-> field.name, dtype |-> field.dtype,
     max_length |-> None, dim |-> Some(EmbeddingDimension),
     is_primary |-> FALSE, auto_id |-> FALSE]

\* FieldSchema(name, dtype, max_length)
PlainField(field) ==
    [name |-> field.name, dtype |-> field.dtype,
     max_length |-> Some(field.max_length), dim |-> None,
     is_primary |-> FALSE, auto_id |-> FALSE]

\* the match statement on field["name"]
FieldSchemaOf(field) ==
    CASE field.name = "pk" -> PkField(field)
      [] field.name = "embeddings" -> EmbeddingsField(field)
      [] OTHER -> PlainField(field)

\* the loop over config["milvus"]["fields"], appending in order
SchemaFields(cfg) == [i \in 1..Len(cfg) |-> FieldSchemaOf(cfg[i])]

\* CollectionSchema(fields, self.description)
CollectionSchemaOf(cfg) == [fields |-> SchemaFields(cfg), description |-> Description]

(***************************************************************************)
(* The store-side collection (pymilvus Collection / utility) as the        *)
(* handler's calls see it.                                                 *)
(***************************************************************************)
AbsentStore == [exists |-> FALSE, loaded |-> FALSE, schema |-> None,
                consistency |-> None, index |-> None,
                growing |-> <<>>, flushed |-> <<>>]

\* a store call can be answered at all
Usable == connected /\ reachable

\* collection.num_entities: the entities of flushed segments
NumEntities(st) == Len(st.flushed)

IsVector(f) == f.dtype = "FLOAT_VECTOR"

\* what the server accepts as the schema of a new collection
ValidSchema(sch) ==
    /\ Cardinality({i \in 1..Len(sch.fields) : sch.fields[i].is_primary}) = 1
    /\ \E i \in 1..Len(sch.fields) : IsVector(sch.fields[i])
    /\ \A i \in 1..Len(sch.fields) :
          IF IsVector(sch.fields[i])
          THEN sch.fields[i].dim # None /\ ~sch.fields[i].is_primary
          ELSE sch.fields[i].max_length # None
    /\ \A i, j \in 1..Len(sch.fields) :
          sch.fields[i].name = sch.fields[j].name => i = j

\* insert binds the columns to the schema's fields by position
ColumnsMatch(sch, entities) ==
    /\ Len(sch.fields) = Len(entities)
    /\ Len(entities) = 3
    /\ sch.fields[1].dtype = "VARCHAR"
    /\ sch.fields[2].dtype = "VARCHAR"
    /\ IsVector(sch.fields[3]) /\ sch.fields[3].dim = Some(EmbeddingDimension)
    /\ Len(entities[1]) = Len(entities[2]) /\ Len(entities[2]) = Len(entities[3])

\* the rows of a column-wise insert
Rows(entities) ==
    [i \in 1..Len(entities[1]) |->
        [pk |-> entities[1][i], sentence |-> entities[2][i],
         embeddings |-> entities[3][i]]]

\* collection.insert(entities): the rows join the growing segment; the
\* store does not compare their keys with those it holds
StoreInsert(st, entities) == [st EXCEPT !.growing = @ \o Rows(entities)]

\* collection.flush(): the growing segment is sealed and counted
StoreFlush(st) == [st EXCEPT !.flushed = @ \o st.growing, !.growing = <<>>]

\* L2 distance (squared) of two vectors
RECURSIVE SumSq(_, _, _)
SumSq(u, v, i) == IF i = 0 THEN 0
                  ELSE (u[i] - v[i]) * (u[i] - v[i]) + SumSq(u, v, i - 1)

L2(u, v) == SumSq(u, v, Len(u))

Min(a, b) == IF a < b THEN a ELSE b

\* the rankings the server may answer with: the nearest min(limit, n) entities,
\* best first, ties in any order
Rankings(st, vec, limit) ==
    LET n == Len(st.flushed)
        m == Min(limit, n)
        d(i) == L2(st.flushed[i].embeddings, vec)
    IN {p \in [1..m -> 1..n] :
          /\ \A i, j \in 1..m : p[i] = p[j] => i = j
          /\ \A i \in 1..m : \A j \in 1..m : i < j => d(p[i]) <= d(p[j])
          /\ \A k \in 1..n : (\A i \in 1..m : p[i] # k) =>
                 \A i \in 1..m : d(p[i]) <= d(k)}

Project(row, output_fields) ==
    [i \in 1..Len(output_fields) |->
        <<output_fields[i],
          CASE output_fields[i] = "pk" -> row.pk
            [] output_fields[i] = "sentence" -> row.sentence
            [] OTHER -> row.embeddings>>]

HitsOf(st, vec, p, output_fields) ==
    [i \in 1..Len(p) |->
        [id |-> st.flushed[p[i]].pk,
         distance |-> L2(st.flushed[p[i]].embeddings, vec),
         entity |-> Project(st.flushed[p[i]], output_fields)]]

\* collection.search([vec], ...): the possible answers, each a sequence of hit
\* groups.  With entities to rank there is one group for the one query vector;
\* over an empty collection the answer is one empty group or no group at all.
SearchResults(st, vec, limit, output_fields) ==
    IF Len(st.flushed) = 0
    THEN {<<>>, << <<>> >>}
    ELSE {<<HitsOf(st, vec, p, output_fields)>> : p \in Rankings(st, vec, limit)}

(***************************************************************************)
(* The handler's methods.  Each action is one call: it leaves in lastOp,   *)
(* args, raised, logged, encodeCalls, trace and ret what the caller and    *)
(* the collaborators saw of it.                                            *)
(***************************************************************************)
\* the state a call starts from: the handler's fields, whether the server
\* answers, the collection's count and existence, and whether the call
\* before it was a connect that failed
Snapshot ==
    [handler |-> handlerVars, reachable |-> reachable, usable |-> Usable,
     count |-> NumEntities(store),
     exists |-> store.exists,
     afterFailedConnect |-> (lastOp = "connect" /\ logged = "error")]

Observe(op, a, exc, lvl, enc, tr, r) ==
    /\ lastOp' = op
    /\ args' = a
    /\ raised' = exc
    /\ logged' = lvl
    /\ encodeCalls' = enc
    /\ trace' = tr
    /\ ret' = r
    /\ before' = Snapshot

Call(name, a) == [call |-> name, args |-> a]

\* a variant of ConnectRaised without the except clause
ConnectRaisedUncaught(ok) == IF ok THEN "none" ELSE "StoreError"

\* connect: try / except Exception / else
ConnectRaised(ok) == "none"

ConnectLogged(ok) == IF ok THEN "info" ELSE "error"

\* MilvusHandler.connect
connect ==
    LET ok == reachable
    IN /\ connected' = (connected \/ ok)
       /\ Observe("connect", <<>>, ConnectRaised(ok), ConnectLogged(ok), 0,
                  <<Call("connections.connect", <<>>)>>, None)
       /\ UNCHANGED <<config, handlerVars, reachable, store>>

\* MilvusHandler.check_collection_existence
check_collection_existence ==
    /\ collection_exists' = IF Usable THEN store.exists ELSE collection_exists
    /\ Observe("check_collection_existence", <<>>,
               IF Usable THEN "none" ELSE "StoreError", "none", 0,
               <<Call("utility.has_collection", <<CollectionName>>)>>, None)
    /\ UNCHANGED <<config, schema, milvus_collection, reachable, connected, store>>

\* CollectionSchema(fields, description) is built.  A constructor that
\* validates (strict) refuses a field list without exactly one primary key;
\* one that does not builds whatever it is given.
SchemaBuilt(cfg, strict) ==
    ~strict \/ Cardinality({i \in 1..Len(cfg) : SchemaFields(cfg)[i].is_primary}) = 1

\* MilvusHandler.define_schema
define_schema(strict) ==
    LET ok == SchemaBuilt(config, strict)
    IN /\ schema' = IF ok THEN Some(CollectionSchemaOf(config)) ELSE schema
       /\ Observe("define_schema", <<>>, IF ok THEN "none" ELSE "SchemaError",
                  "none", 0, <<>>, None)
       /\ UNCHANGED <<config, collection_exists, milvus_collection, reachable,
                      connected, store>>

IndexParams == [index_type |-> "IVF_FLAT", metric_type |-> "L2",
                params |-> [nlist |-> 128]]

\* a variant of CollectionCalls that builds no index on a new collection
CollectionCallsNoIndex(exists, sch) ==
    IF exists
    THEN <<Call("Collection", <<CollectionName, None, None>>)>>
    ELSE <<Call("Collection", <<CollectionName, sch, Some("Strong")>>)>>

\* connect_to_collection: the store calls each branch issues, in order
CollectionCalls(exists, sch) ==
    IF exists
    THEN <<Call("Collection", <<CollectionName, None, None>>)>>
    ELSE <<Call("Collection", <<CollectionName, sch, Some("Strong")>>),
           Call("create_index", <<"embeddings", IndexParams>>)>>

\* Collection(name[, schema, consistency_level]) is answered: an existing
\* collection is attached (a given schema must equal the stored one), a
\* missing one is created from a schema the server accepts
CollectionOk(st, c) ==
    /\ Usable
    /\ IF st.exists
       THEN c.args[2] = None \/ c.args[2] = st.schema
       ELSE c.args[2] # None /\ ValidSchema(c.args[2][1])

AfterCollection(st, c) ==
    IF st.exists THEN st
    ELSE [AbsentStore EXCEPT !.exists = TRUE, !.schema = c.args[2],
                             !.consistency = c.args[3]]

\* create_index(field, index) is answered: the field is a vector field
IndexOk(st, c) ==
    /\ Usable
    /\ \E i \in 1..Len(st.schema[1].fields) :
          /\ st.schema[1].fields[i].name = c.args[1]
          /\ IsVector(st.schema[1].fields[i])

AfterIndex(st, c) == [st EXCEPT !.index = Some(c.args)]

\* collection.insert(entities) is answered: the columns fit the schema; an
\* insert of no rows is answered or refused, as the server pleases (lenient)
InsertOk(st, c, lenient) ==
    /\ Usable
    /\ st.exists
    /\ ColumnsMatch(st.schema[1], c.args[1])
    /\ (Len(c.args[1][1]) > 0 \/ lenient)

FlushOk(st) == Usable /\ st.exists

CallOk(st, c, lenient) ==
    CASE c.call = "Collection" -> CollectionOk(st, c)
      [] c.call = "create_index" -> IndexOk(st, c)
      [] c.call = "insert" -> InsertOk(st, c, lenient)
      [] OTHER -> FlushOk(st)

AfterCall(st, c) ==
    CASE c.call = "Collection" -> AfterCollection(st, c)
      [] c.call = "create_index" -> AfterIndex(st, c)
      [] c.call = "insert" -> StoreInsert(st, c.args[1])
      [] OTHER -> StoreFlush(st)

\* the store calls of one method, run in order until one raises:
\* <<store afterwards, calls issued, whether all were answered>>.  The server
\* comes and goes between two methods (EnvFlip), not between the calls of one.
RECURSIVE RunCalls(_, _, _, _)
RunCalls(st, calls, issued, lenient) ==
    IF calls = <<>> THEN <<st, issued, TRUE>>
    ELSE LET c == Head(calls)
         IN IF CallOk(st, c, lenient)
            THEN RunCalls(AfterCall(st, c), Tail(calls), Append(issued, c), lenient)
            ELSE <<st, Append(issued, c), FALSE>>

\* self.milvus_collection = milvus_collection, reached only without a raise
HandleAfter(ok) == IF ok THEN Some(CollectionName) ELSE milvus_collection

\* MilvusHandler.connect_to_collection
connect_to_collection ==
    LET run == RunCalls(store, CollectionCalls(collection_exists, schema), <<>>, TRUE)
    IN /\ store' = run[1]
       /\ milvus_collection' = HandleAfter(run[3])
       /\ Observe("connect_to_collection", <<>>,
                  IF run[3] THEN "none" ELSE "StoreError",
                  IF collection_exists \/ run[3] \/ Len(run[2]) > 1
                  THEN "info" ELSE "none",
                  0, run[2], None)
       /\ UNCHANGED <<config, collection_exists, schema, reachable, connected>>

\* variants of PrimaryKeys: keys counted from the store's entity count at
\* the insert, keys counted from 0, and a range one short
PrimaryKeysFromCount(raw_data, starting_idx) ==
    LET r == Range(NumEntities(store), NumEntities(store) + Len(raw_data))
    IN [i \in 1..Len(r) |-> Str(r[i])]

PrimaryKeysFromZero(raw_data, starting_idx) ==
    LET r == Range(0, Len(raw_data))
    IN [i \in 1..Len(r) |-> Str(r[i])]

PrimaryKeysShort(raw_data, starting_idx) ==
    LET r == Range(starting_idx, starting_idx + Len(raw_data) - 1)
    IN [i \in 1..Len(r) |-> Str(r[i])]

\* [str(i) for i in range(starting_idx, starting_idx + len(raw_data))]
PrimaryKeys(raw_data, starting_idx) ==
    LET r == Range(starting_idx, starting_idx + Len(raw_data))
    IN [i \in 1..Len(r) |-> Str(r[i])]

\* [self.model.encode(sentence.strip()) for sentence in raw_data]
s_embeddings(raw_data) == [i \in 1..Len(raw_data) |-> Encode(Strip(raw_data[i]))]

\* the three columns built by insert_data
Entities(raw_data, starting_idx) ==
    <<PrimaryKeys(raw_data, starting_idx),
      [i \in 1..Len(raw_data) |-> Strip(raw_data[i])],
      s_embeddings(raw_data)>>

\* a variant of InsertCalls that flushes before it inserts
InsertCallsFlushFirst(entities) ==
    <<Call("flush", <<>>), Call("insert", <<entities>>)>>

\* insert_data: collection.insert(entities), then collection.flush()
InsertCalls(entities) ==
    <<Call("insert", <<entities>>), Call("flush", <<>>)>>

\* MutationResult
MutationResult(entities) ==
    [insert_count |-> Len(entities[1]), primary_keys |-> entities[1]]

\* MilvusHandler.insert_data; the embeddings are computed before the
\* handle is looked at
insert_data(raw_data, starting_idx, lenient) ==
    LET entities == Entities(raw_data, starting_idx)
        enc == Len(s_embeddings(raw_data))
        run == RunCalls(store, InsertCalls(entities), <<>>, lenient)
    IN /\ IF milvus_collection = None
          THEN /\ store' = store
               /\ Observe("insert_data", <<raw_data, starting_idx>>,
                          "NoActiveCollection", "error", enc, <<>>, None)
          ELSE /\ store' = run[1]
               /\ Observe("insert_data", <<raw_data, starting_idx>>,
                          IF run[3] THEN "none" ELSE "StoreError", "none", enc,
                          run[2],
                          IF run[3] THEN Some(MutationResult(entities)) ELSE None)
       /\ UNCHANGED <<config, handlerVars, reachable, connected>>

search_params == [metric_type |-> "L2", params |-> [nprobe |-> 10]]

\* collection.search(...) is answered
SearchOk(st) == Usable /\ st.exists /\ st.loaded

\* "for hits in result: ...; return hits": the last group, and an
\* UnboundLocalError when the loop body never ran
ReturnedHits(result) ==
    IF result = <<>> THEN <<"UnboundLocalError", None>>
    ELSE <<"none", Some(result[Len(result)])>>

\* MilvusHandler.search; result is the server's answer when it gives one
search(text, limit, output_fields, result) ==
    LET c == Call("search", <<Encode(text), "embeddings", search_params, limit,
                              output_fields>>)
    IN /\ IF milvus_collection = None
          THEN Observe("search", <<text, limit, output_fields>>,
                       "NoActiveCollection", "error", 1, <<>>, None)
          ELSE IF SearchOk(store)
               THEN Observe("search", <<text, limit, output_fields>>,
                            ReturnedHits(result)[1], "info", 1, <<c>>,
                            ReturnedHits(result)[2])
               ELSE Observe("search", <<text, limit, output_fields>>,
                            "StoreError", "none", 1, <<c>>, None)
       /\ UNCHANGED <<config, handlerVars, reachable, connected, store>>

\* a variant of DropRaised without the except clause
DropRaisedUncaught(ok) == IF ok THEN "none" ELSE "StoreError"

\* drop_db: try / except Exception / else
DropRaised(ok) == "none"

DropLogged(ok) == IF ok THEN "info" ELSE "error"

\* utility.drop_collection(name) is answered; dropping a missing collection
\* is answered or refused, as the server pleases (lenient)
DropOk(st, lenient) == Usable /\ (st.exists \/ lenient)

\* MilvusHandler.drop_db
drop_db(lenient) ==
    LET ok == DropOk(store, lenient)
    IN /\ store' = IF ok THEN AbsentStore ELSE store
       /\ Observe("drop_db", <<>>, DropRaised(ok), DropLogged(ok), 0,
                  <<Call("utility.drop_collection", <<CollectionName>>)>>, None)
       /\ UNCHANGED <<config, handlerVars, reachable, connected>>

(***************************************************************************)
(* What the callers do on the handle themselves.                           *)
(***************************************************************************)
\* mh.milvus_collection.num_entities, read by caller c
ReadCount(c) ==
    LET ok == Usable /\ store.exists
    IN /\ milvus_collection # None
       /\ cnt' = IF ok THEN [cnt EXCEPT ![c] = Some(NumEntities(store))] ELSE cnt
       /\ Observe("num_entities", <<>>, IF ok THEN "none" ELSE "StoreError",
                  "none", 0, <<Call("num_entities", <<>>)>>,
                  IF ok THEN Some(NumEntities(store)) ELSE None)
       /\ UNCHANGED <<config, handlerVars, reachable, connected, store>>

\* mh.milvus_collection.load()
Load ==
    LET ok == Usable /\ store.exists /\ store.index # None
    IN /\ milvus_collection # None
       /\ store' = IF ok THEN [store EXCEPT !.loaded = TRUE] ELSE store
       /\ Observe("load", <<>>, IF ok THEN "none" ELSE "StoreError", "none", 0,
                  <<Call("load", <<>>)>>, None)
       /\ UNCHANGED <<config, handlerVars, reachable, connected>>

\* the server goes away or comes back between two calls
EnvFlip ==
    /\ reachable' = ~reachable
    /\ UNCHANGED <<config, handlerVars, connected, store, lastOp, args, raised,
                   logged, encodeCalls, trace, ret, before>>

(***************************************************************************)
(* Inputs.                                                                 *)
(***************************************************************************)
Texts == {<<" ", "a">>, <<"b", "\n">>}

SeqsUpTo(S, n) == UNION {[1..k -> S] : k \in 0..n}

RawDatas == SeqsUpTo(Texts, MaxRows)

StartIndexes == {-1, 9}

OutputFields == <<"pk", "sentence">>

StdConfig ==
    <<[name |-> "pk", dtype |-> "VARCHAR", max_length |-> 36],
      [name |-> "sentence", dtype |-> "VARCHAR", max_length |-> 500],
      [name |-> "embeddings", dtype |-> "FLOAT_VECTOR", max_length |-> 36]>>

\* the same fields with the last two swapped: a schema the server accepts
\* and the insert columns do not fit
SwappedConfig == <<StdConfig[1], StdConfig[3], StdConfig[2]>>

\* no "pk" entry: a schema without primary key
NoPkConfig == <<StdConfig[2], StdConfig[3]>>

\* a collection that is in the store before the handler runs
ExistingStore(rows) ==
    [exists |-> TRUE, loaded |-> FALSE,
     schema |-> Some(CollectionSchemaOf(StdConfig)),
     consistency |-> Some("Strong"),
     index |-> Some(<<"embeddings", IndexParams>>),
     growing |-> <<>>, flushed |-> rows]

\* k rows of an earlier run, under the keys "0" .. "k-1"
SeededRows(k) ==
    [i \in 1..k |-> [pk |-> Str(i - 1), sentence |-> <<"a">>,
                     embeddings |-> Encode(<<"a">>)]]

\* MilvusHandler.__init__ and nothing called yet
InitHandler ==
    /\ collection_exists = FALSE
    /\ schema = None
    /\ milvus_collection = None
    /\ connected = FALSE
    /\ lastOp = "init"
    /\ args = <<>>
    /\ raised = "none"
    /\ logged = "none"
    /\ encodeCalls = 0
    /\ trace = <<>>
    /\ ret = None
    /\ before = [handler |-> <<FALSE, None, None>>, reachable |-> FALSE,
                 usable |-> FALSE, count |-> 0,
                 exists |-> FALSE, afterFailedConnect |-> FALSE]

(***************************************************************************)
(* Spec: one caller using the handler's methods in any order, against a    *)
(* server that comes and goes.  The rows inserted are of one kind: the     *)
(* data operations have their own specification, SpecData.                 *)
(***************************************************************************)
OneRow == << <<" ", "a">> >>

Init ==
    /\ InitHandler
    /\ config \in {StdConfig, SwappedConfig, NoPkConfig}
    /\ reachable \in BOOLEAN
    /\ store \in {AbsentStore, ExistingStore(<<>>)}
    /\ pc = [c \in {"api"} |-> "call"]
    /\ cnt = [c \in {"api"} |-> None]
    /\ lines = <<>>

Next ==
    \/ connect /\ UNCHANGED callerVars
    \/ check_collection_existence /\ UNCHANGED callerVars
    \/ \E strict \in BOOLEAN : define_schema(strict) /\ UNCHANGED callerVars
    \/ connect_to_collection /\ UNCHANGED callerVars
    \/ /\ NumEntities(store) + Len(OneRow) <= MaxEntities
       /\ insert_data(OneRow, NumEntities(store), TRUE)
       /\ UNCHANGED callerVars
    \/ \E result \in SearchResults(store, Encode(OneRow[1]), 1, OutputFields) :
          search(OneRow[1], 1, OutputFields, result) /\ UNCHANGED callerVars
    \/ \E lenient \in BOOLEAN : drop_db(lenient) /\ UNCHANGED callerVars
    \/ Load /\ UNCHANGED callerVars
    \/ EnvFlip /\ UNCHANGED callerVars

Spec == Init /\ [][Next]_vars

(***************************************************************************)
(* Claims checked under Spec.                                              *)
(***************************************************************************)

StoreFacing == {"check_collection_existence", "connect_to_collection",
                "insert_data", "search"}

ConnectFailedJustBefore == before.afterFailedConnect

\* C6 as stated: after a connect that failed, the next store-facing call
\* (check_existence, attach_or_create, insert, search), made while the
\* server still does not answer, fails with a store-side error.
C6_Original ==
    (lastOp \in StoreFacing /\ ConnectFailedJustBefore /\ ~before.usable)
        => raised = "StoreError"

\* C6 amended: a connect to a server that does not answer logs an error,
\* raises nothing and changes no handler field; of the calls that follow
\* while the server still does not answer, check_existence and
\* attach_or_create fail with a store-side error, and so do insert and
\* search on a handler that has a collection handle, while insert and
\* search on a handler without one fail with the "no active collection"
\* error.
C6_ConnectDefersFailure ==
    /\ lastOp = "connect" =>
          /\ raised = "none"
          /\ handlerVars = before.handler
          /\ logged = "error" <=> ~before.reachable
    /\ (lastOp \in StoreFacing /\ ConnectFailedJustBefore /\ ~before.usable) =>
          raised = IF lastOp \in {"insert_data", "search"}
                      /\ before.handler[3] = None
                   THEN "NoActiveCollection" ELSE "StoreError"

\* C6 witness: connect failed, and the check_existence after it failed with
\* a store-side error.
C6_Witness ==
    /\ lastOp = "check_collection_existence"
    /\ ConnectFailedJustBefore
    /\ ~before.usable
    /\ raised = "StoreError"

\* C7: connect_to_collection branches on collection_exists alone.  With the
\* flag set it issues one call, Collection(name), with no schema, and no
\* index is built; with the flag clear it issues Collection(name, schema,
\* "Strong") and then create_index("embeddings", IVF_FLAT / L2 / nlist 128).
\* The handle is set when every call of the branch was answered, and is
\* left as it was when one raised.
C7_AttachOrCreate ==
    lastOp = "connect_to_collection" =>
        /\ collection_exists = before.handler[1]
        /\ collection_exists =>
              trace = <<[call |-> "Collection",
                         args |-> <<CollectionName, None, None>>]>>
        /\ ~collection_exists =>
              /\ trace[1] = [call |-> "Collection",
                             args |-> <<CollectionName, schema, <<"Strong">> >>]
              /\ Len(trace) \in {1, 2}
              /\ Len(trace) = 2 =>
                    trace[2] = [call |-> "create_index",
                                args |-> <<"embeddings",
                                           [index_type |-> "IVF_FLAT",
                                            metric_type |-> "L2",
                                            params |-> [nlist |-> 128]]>>]
              /\ raised = "none" => Len(trace) = 2
        /\ raised = "none" => milvus_collection = <<CollectionName>>
        /\ raised # "none" => milvus_collection = before.handler[3]

\* C7 witness: the flag was clear, the collection was created and indexed,
\* and the handle is set.
C7_Witness ==
    /\ lastOp = "connect_to_collection"
    /\ ~collection_exists
    /\ ~before.exists
    /\ Len(trace) = 2
    /\ raised = "none"
    /\ store.index # None
    /\ milvus_collection # None

(***************************************************************************)
(* SpecData: one caller that sets the handler up in the entry sequence's   *)
(* order (connect, check, define the schema, attach or create, load) and   *)
(* may insert, search and read the count at any point of it, before the    *)
(* handle is there as well as after.  The server answers throughout.       *)
(***************************************************************************)
InitData ==
    /\ InitHandler
    /\ config = StdConfig
    /\ reachable = TRUE
    /\ store \in {AbsentStore, ExistingStore(<<>>)}
    /\ pc = [c \in {"api"} |-> "connect"]
    /\ cnt = [c \in {"api"} |-> None]
    /\ lines = <<>>

At(c, here) == pc[c] = here

Goto(c, there) == pc' = [pc EXCEPT ![c] = there]

DataSetup ==
    \/ At("api", "connect") /\ connect /\ Goto("api", "check")
    \/ At("api", "check") /\ check_collection_existence /\ Goto("api", "define")
    \/ At("api", "define") /\ (\E strict \in BOOLEAN : define_schema(strict))
       /\ Goto("api", "attach")
    \/ At("api", "attach") /\ connect_to_collection /\ Goto("api", "load")
    \/ At("api", "load") /\ Load /\ Goto("api", "ready")

DataInsert ==
    \E raw \in RawDatas, n \in StartIndexes :
       \E lenient \in (IF raw = <<>> THEN BOOLEAN ELSE {TRUE}) :
          /\ NumEntities(store) + Len(raw) <= MaxEntities
          /\ insert_data(raw, n, lenient)

DataSearch ==
    \E text \in Texts, limit \in 1..MaxLimit :
       \E result \in SearchResults(store, Encode(text), limit, OutputFields) :
          search(text, limit, OutputFields, result)

NextData ==
    \/ DataSetup /\ UNCHANGED <<cnt, lines>>
    \/ DataInsert /\ UNCHANGED callerVars
    \/ DataSearch /\ UNCHANGED callerVars
    \/ ReadCount("api") /\ UNCHANGED <<pc, lines>>

SpecData == InitData /\ [][NextData]_vars

(***************************************************************************)
(* Claims checked under SpecData.                                          *)
(***************************************************************************)
DigitValue(c) == CHOOSE d \in 0..9 : DigitChars[d + 1] = c

IsDigit(c) == \E d \in 0..9 : DigitChars[d + 1] = c

RECURSIVE NatOf(_)
NatOf(s) == IF Len(s) = 1 THEN DigitValue(s[1])
            ELSE 10 * NatOf(SubSeq(s, 1, Len(s) - 1)) + DigitValue(s[Len(s)])

\* s is the decimal numeral of v as Python prints it: digits only, a
\* leading "-" for a negative number, no leading zero
IsNumeralOf(s, v) ==
    LET neg == s # <<>> /\ s[1] = "-"
        ds == IF neg THEN Tail(s) ELSE s
    IN /\ ds # <<>>
       /\ \A i \in 1..Len(ds) : IsDigit(ds[i])
       /\ Len(ds) > 1 => ds[1] # "0"
       /\ neg => v < 0
       /\ NatOf(ds) = (IF neg THEN -v ELSE v)

NoOuterWhitespace(s) ==
    s = <<>> \/ (s[1] \notin Whitespace /\ s[Len(s)] \notin Whitespace)

\* C1: whenever insert_data(raw_data, n) hands columns to the store, the
\* primary-key column has len(raw_data) keys and its i-th key is the decimal
\* numeral of n + i - 1, whatever the texts are; the text column and the
\* embedding column have the same length, the i-th text is raw_data[i]
\* without its outer whitespace and the i-th embedding is that of this text.
C1_PrimaryKeysAreTheRange ==
    (lastOp = "insert_data" /\ trace # <<>>) =>
        LET raw == args[1]
            n == args[2]
            cols == trace[1].args[1]
        IN /\ trace[1].call = "insert"
           /\ Len(cols) = 3
           /\ Len(cols[1]) = Len(raw)
           /\ Len(cols[2]) = Len(raw)
           /\ Len(cols[3]) = Len(raw)
           /\ \A i \in 1..Len(raw) :
                 /\ IsNumeralOf(cols[1][i], n + i - 1)
                 /\ NoOuterWhitespace(cols[2][i])
                 /\ \E a, b \in 0..Len(raw[i]) :
                       /\ a + b + Len(cols[2][i]) = Len(raw[i])
                       /\ cols[2][i] = SubSeq(raw[i], a + 1, Len(raw[i]) - b)
                 /\ cols[3][i] = Encode(cols[2][i])

\* C1 witness: two texts inserted from index 9 were stored under the keys
\* "9" and "10".
C1_Witness ==
    /\ lastOp = "insert_data"
    /\ raised = "none"
    /\ args[2] = 9
    /\ Len(args[1]) = 2
    /\ args[1][1] # args[1][2]
    /\ trace[1].args[1][1] = << <<"9">>, <<"1", "0">> >>
    /\ NumEntities(store) >= 2

\* C2 as stated: insert_data on a handler without collection handle fails
\* with the "no active collection" error and has not called encode.
C2_CheckedBeforeEmbedding ==
    (lastOp = "insert_data" /\ before.handler[3] = None) =>
        /\ raised = "NoActiveCollection"
        /\ encodeCalls = 0

\* C8 as stated: a search on an attached, loaded collection that holds no
\* entity, answered by the server, returns zero hits and raises nothing,
\* be the answer one empty group of hits or no group at all.
C8_EmptySearchReturnsNoHits ==
    (/\ lastOp = "search"
     /\ before.handler[3] # None
     /\ before.usable /\ before.exists /\ store.loaded
     /\ before.count = 0) =>
        /\ raised = "none"
        /\ ret = <<<<>>>>

\* C9: an insert_data that raised nothing issued collection.insert and then
\* collection.flush and nothing else, left no row unflushed, and the entity
\* count is the count at the call plus len(raw_data); the count query of the
\* caller returns that entity count.
C9_FlushMakesCountVisible ==
    /\ (lastOp = "insert_data" /\ raised = "none") =>
          /\ Len(trace) = 2
          /\ trace[1].call = "insert"
          /\ trace[2].call = "flush"
          /\ store.growing = <<>>
          /\ NumEntities(store) = before.count + Len(args[1])
    /\ (lastOp = "num_entities" /\ raised = "none") =>
          /\ ret = <<Len(store.flushed)>>
          /\ cnt["api"] = ret
          /\ before.count = ret[1]

\* C9 witness: an insert of two rows into a collection that held none was
\* answered, and two entities are counted.
C9_Witness ==
    /\ lastOp = "insert_data"
    /\ raised = "none"
    /\ Len(args[1]) = 2
    /\ before.count = 0
    /\ NumEntities(store) = 2

(***************************************************************************)
(* SpecSchema: define_schema over every configured field list of up to     *)
(* MaxFields entries.                                                      *)
(***************************************************************************)
InitSchema ==
    /\ InitHandler
    /\ config \in SeqsUpTo(FieldEntries, MaxFields)
    /\ reachable = TRUE
    /\ store = AbsentStore
    /\ pc = [c \in {"api"} |-> "call"]
    /\ cnt = [c \in {"api"} |-> None]
    /\ lines = <<>>

NextSchema == \E strict \in BOOLEAN : define_schema(strict) /\ UNCHANGED callerVars

SpecSchema == InitSchema /\ [][NextSchema]_vars

PrimaryFields(sch) == {i \in 1..Len(sch.fields) : sch.fields[i].is_primary}

VectorFields(sch) == {i \in 1..Len(sch.fields) : sch.fields[i].dtype = "FLOAT_VECTOR"}

SameOrder(sch, cfg) ==
    /\ Len(sch.fields) = Len(cfg)
    /\ \A i \in 1..Len(cfg) :
          sch.fields[i].name = cfg[i].name /\ sch.fields[i].dtype = cfg[i].dtype

OnePkOneVector(sch) ==
    /\ Cardinality(PrimaryFields(sch)) = 1
    /\ Cardinality(VectorFields(sch)) = 1
    /\ \A i \in VectorFields(sch) : sch.fields[i].dim = <<EmbDim>>

\* C3 as stated: for every configured field list define_schema produces a
\* schema that has exactly one primary-key field and exactly one vector
\* field, of the embedder's dimension, and whose fields are in
\* configuration order.
C3_Original ==
    lastOp = "define_schema" =>
        /\ raised = "none"
        /\ schema # None
        /\ OnePkOneVector(schema[1])
        /\ SameOrder(schema[1], config)

WellFormed(cfg) ==
    /\ Cardinality({i \in 1..Len(cfg) : cfg[i].name = "pk"}) = 1
    /\ Cardinality({i \in 1..Len(cfg) : cfg[i].name = "embeddings"}) = 1
    /\ \A i \in 1..Len(cfg) :
          cfg[i].dtype = "FLOAT_VECTOR" <=> cfg[i].name = "embeddings"

\* C3 amended: for every configured field list that has exactly one entry
\* named "pk" and exactly one entry named "embeddings", the latter being its
\* only entry of a vector type, define_schema produces a schema that has
\* exactly one primary-key field and exactly one vector field, of the
\* embedder's dimension, and whose fields are in configuration order.  For
\* any list, a schema that is produced has its fields in configuration
\* order, its primary keys are the entries named "pk" and the embedder's
\* dimension is on the entries named "embeddings" and on no other.
C3_SchemaFollowsConfig ==
    lastOp = "define_schema" =>
        /\ WellFormed(config) =>
              /\ raised = "none"
              /\ schema # None
              /\ OnePkOneVector(schema[1])
              /\ SameOrder(schema[1], config)
        /\ raised = "none" =>
              /\ schema # None
              /\ SameOrder(schema[1], config)
              /\ \A i \in 1..Len(config) :
                    /\ schema[1].fields[i].is_primary <=> config[i].name = "pk"
                    /\ ~schema[1].fields[i].auto_id
                    /\ schema[1].fields[i].dim =
                          (IF config[i].name = "embeddings" THEN <<EmbDim>> ELSE <<>>)

\* C3 witness: the schema of the fields pk, sentence, embeddings.
C3_Witness ==
    /\ lastOp = "define_schema"
    /\ raised = "none"
    /\ config = StdConfig
    /\ OnePkOneVector(schema[1])
    /\ schema[1].fields[3].dim = <<EmbDim>>

(***************************************************************************)
(* SpecRace: the entry sequence's setup, then two writers that each do     *)
(* what the entry sequence does for its extra row: read num_entities, then *)
(* insert_data(rows, that count).  The writers' steps interleave.          *)
(***************************************************************************)
Writers == {"w1", "w2"}

InitRace ==
    /\ InitHandler
    /\ config = StdConfig
    /\ reachable = TRUE
    /\ store \in {AbsentStore, ExistingStore(<<>>), ExistingStore(SeededRows(2))}
    /\ pc = [c \in Writers \cup {"main"} |-> IF c = "main" THEN "connect" ELSE "read"]
    /\ cnt = [c \in Writers \cup {"main"} |-> None]
    /\ lines \in [Writers -> RawDatas]

RaceSetup ==
    \/ At("main", "connect") /\ connect /\ Goto("main", "check")
    \/ At("main", "check") /\ check_collection_existence /\ Goto("main", "define")
    \/ At("main", "define") /\ (\E strict \in BOOLEAN : define_schema(strict))
       /\ Goto("main", "attach")
    \/ At("main", "attach") /\ connect_to_collection /\ Goto("main", "ready")

RaceRead(w) ==
    /\ At(w, "read")
    /\ ReadCount(w)
    /\ Goto(w, IF raised' = "none" THEN "insert" ELSE "failed")
    /\ UNCHANGED lines

RaceInsert(w) ==
    /\ At(w, "insert")
    /\ \E lenient \in (IF lines[w] = <<>> THEN BOOLEAN ELSE {TRUE}) :
          insert_data(lines[w], cnt[w][1], lenient)
    /\ Goto(w, IF raised' = "none" THEN "done" ELSE "failed")
    /\ UNCHANGED <<cnt, lines>>

NextRace ==
    \/ RaceSetup /\ UNCHANGED <<cnt, lines>>
    \/ \E w \in Writers : RaceRead(w)
    \/ \E w \in Writers : RaceInsert(w)

SpecRace == InitRace /\ [][NextRace]_vars

KeyCount(v) ==
    Cardinality({i \in 1..Len(store.flushed) : IsNumeralOf(store.flushed[i].pk, v)})

\* C4: when two writers read the same entity count and each inserted at
\* least one row with that count as starting index, both submitted the key
\* of that count and the collection holds it twice.
C4_SameCountCollides ==
    (/\ At("w1", "done") /\ At("w2", "done")
     /\ cnt["w1"] = cnt["w2"]
     /\ lines["w1"] # <<>> /\ lines["w2"] # <<>>) =>
        KeyCount(cnt["w1"][1]) >= 2

\* C4 witness: a collection of two entities, both writers read 2, both
\* inserted, and the key "2" is there twice.
C4_Witness ==
    /\ At("w1", "done") /\ At("w2", "done")
    /\ cnt["w1"] = <<2>> /\ cnt["w2"] = <<2>>
    /\ lines["w1"] # <<>> /\ lines["w2"] # <<>>
    /\ \E i, j \in 1..Len(store.flushed) :
          i # j /\ store.flushed[i].pk = <<"2">> /\ store.flushed[j].pk = <<"2">>

(***************************************************************************)
(* SpecMain: the entry sequence of __main__.py, one statement a step.  An  *)
(* exception that a call lets through ends the process.                    *)
(***************************************************************************)
SampleText == <<"a", " ", "b">>

\* limit=3 of the sample search
SearchLimit == 3

ExtraRow == << <<"b", " ", "a">> >>

InitMain ==
    /\ InitHandler
    /\ config \in {StdConfig, SwappedConfig}
    /\ reachable \in BOOLEAN
    /\ store \in {AbsentStore, ExistingStore(<<>>), ExistingStore(SeededRows(1))}
    /\ pc = [c \in {"main"} |-> "connect"]
    /\ cnt = [c \in {"main"} |-> None]
    /\ lines \in RawDatas

\* the statement after a call: the next one, or none when the call raised
Then(there) == Goto("main", IF raised' = "none" THEN there ELSE "crashed")

\* mh.connect() ... mh.connect_to_collection()
MainSetup ==
    \/ At("main", "connect") /\ connect /\ Then("check")
    \/ At("main", "check") /\ check_collection_existence /\ Then("define")
    \/ At("main", "define") /\ (\E strict \in BOOLEAN : define_schema(strict))
       /\ Then("attach")
    \/ At("main", "attach") /\ connect_to_collection /\ Then("guard")

\* an "if mh.milvus_collection is not None:" that finds no handle
Skip(there) ==
    /\ Goto("main", there)
    /\ UNCHANGED <<config, handlerVars, reachable, connected, store, lastOp, args,
                   raised, logged, encodeCalls, trace, ret, before>>

\* if mh.milvus_collection is not None: if ...num_entities == 0:
MainGuard ==
    /\ At("main", "guard")
    /\ IF milvus_collection = None
       THEN Skip("load") /\ cnt' = cnt
       ELSE /\ ReadCount("main")
            /\ Goto("main", IF raised' # "none" THEN "crashed"
                            ELSE IF cnt'["main"] = <<0>> THEN "seed_count"
                            ELSE "load")

\* the argument mh.milvus_collection.num_entities of the seeding insert
MainSeedCount ==
    /\ At("main", "seed_count")
    /\ ReadCount("main")
    /\ Then("seed")

\* insert_result = mh.insert_data(lines, <that count>)
MainSeed ==
    /\ At("main", "seed")
    /\ \E lenient \in (IF lines = <<>> THEN BOOLEAN ELSE {TRUE}) :
          insert_data(lines, cnt["main"][1], lenient)
    /\ Then("load")

\* mh.milvus_collection.load(), outside any test of the handle
MainLoad ==
    /\ At("main", "load")
    /\ IF milvus_collection = None
       THEN /\ Observe("load", <<>>, "AttributeError", "none", 0, <<>>, None)
            /\ UNCHANGED <<config, handlerVars, reachable, connected, store>>
       ELSE Load
    /\ Then("search")

\* if mh.milvus_collection is not None:
\*     hits = mh.search(text=..., limit=3, output_fields=["pk", "sentence"])
MainSearch ==
    /\ At("main", "search")
    /\ IF milvus_collection = None
       THEN Skip("extra_count")
       ELSE /\ \E result \in SearchResults(store, Encode(SampleText), SearchLimit,
                                          OutputFields) :
                  search(SampleText, SearchLimit, OutputFields, result)
            /\ Then("extra_count")

\* if mh.milvus_collection is not None: and the argument
\* mh.milvus_collection.num_entities of the extra insert
MainExtraCount ==
    /\ At("main", "extra_count")
    /\ IF milvus_collection = None
       THEN Skip("drop") /\ cnt' = cnt
       ELSE ReadCount("main") /\ Then("extra")

\* insert_result2 = mh.insert_data(["This is a new entry"], <that count>)
MainExtra ==
    /\ At("main", "extra")
    /\ insert_data(ExtraRow, cnt["main"][1], TRUE)
    /\ Then("drop")

\* mh.drop_db()
MainDrop ==
    /\ At("main", "drop")
    /\ \E lenient \in BOOLEAN : drop_db(lenient)
    /\ Then("done")

NextMain ==
    \/ MainSetup /\ UNCHANGED <<cnt, lines>>
    \/ MainGuard /\ UNCHANGED lines
    \/ MainSeedCount /\ UNCHANGED lines
    \/ MainSeed /\ UNCHANGED <<cnt, lines>>
    \/ MainLoad /\ UNCHANGED <<cnt, lines>>
    \/ MainSearch /\ UNCHANGED <<cnt, lines>>
    \/ MainExtraCount /\ UNCHANGED lines
    \/ MainExtra /\ UNCHANGED <<cnt, lines>>
    \/ MainDrop /\ UNCHANGED <<cnt, lines>>
    \/ EnvFlip /\ UNCHANGED callerVars

SpecMain == InitMain /\ [][NextMain]_vars

KeysAreZeroTo(n) ==
    /\ Len(store.flushed) = n
    /\ \A i \in 1..n : IsNumeralOf(store.flushed[i].pk, i - 1)
    /\ \A i, j \in 1..n : store.flushed[i].pk = store.flushed[j].pk => i = j

\* C10: in the entry sequence run on a collection that was not there (the
\* existence flag stayed clear), after the seeding insert the collection
\* holds len(lines) entities and after the extra insert len(lines) + 1; each
\* time the stored keys are pairwise distinct and are the numerals of 0 up
\* to the count less one, and the extra row was submitted under the numeral
\* of len(lines).
C10_MainKeysContiguous ==
    (~collection_exists /\ lastOp = "insert_data" /\ raised = "none") =>
        /\ At("main", "load") => KeysAreZeroTo(Len(lines))
        /\ At("main", "drop") =>
              /\ KeysAreZeroTo(Len(lines) + 1)
              /\ Len(trace[1].args[1][1]) = 1
              /\ IsNumeralOf(trace[1].args[1][1][1], Len(lines))
        /\ At("main", "load") \/ At("main", "drop")

\* C10 witness: two lines were seeded and the extra row was stored as "2".
C10_Witness ==
    /\ ~collection_exists
    /\ At("main", "drop")
    /\ lastOp = "insert_data"
    /\ raised = "none"
    /\ Len(lines) = 2
    /\ Len(store.flushed) = 3
    /\ store.flushed[3].pk = <<"2">>

====
